---- MODULE Spec2Model ----
(***************************************************************************)
(* mouse-actions: the grab callback (src/grab.rs) and the configuration    *)
(* watcher (src/config.rs) as a state machine.                             *)
(*                                                                         *)
(* Three threads: the input-hook thread running grab_event_fn once per raw *)
(* event, statement by statement; the cursor tracker started by            *)
(* listen::start_listen, which only writes last_point; and the             *)
(* watch_config thread.  Every Mutex of GrabContext is a lock of `locks`.  *)
(***************************************************************************)
EXTENDS Integers, Sequences, FiniteSets, TLC

\* ---------------------------------------------------------------- bounds
Cap == 2            \* capacity of the PointHistory of the main specification
MaxCoord == 1       \* the screen is 0..MaxCoord by 0..MaxCoord
MaxQueue == 1       \* notifications waiting in the watcher's channel
ExtraMoves == 2     \* moves counted after a gesture has filled the history
MaxTrace == 2       \* points of a trace given to normalize_points

\* ------------------------------------------------------ program constants
ShortThreshold == 10   \* grab.rs:99  histo.len() < 10

\* ------------------------------------------------------------ value types
Pt(px, py) == [x |-> px, y |-> py]
\* grab.rs:32  Point { x: 0, y: 0 }
StartPoint == Pt(0, 0)
\* the positions the pointer is moved to: two opposite corners of the screen
Points == {Pt(0, 0), Pt(MaxCoord, MaxCoord)}

\* rdev::Button values carried by ButtonPress / ButtonRelease
RdevButtons == {"rdev.Left", "rdev.Right"}
\* rdev wheel deltas (delta_y)
WheelDeltas == {-1, 1}

\* rdev::Key: the seven keys grab_event_fn matches, and one it does not
TrackedKeys == {"ShiftLeft", "ShiftRight", "ControlLeft", "ControlRight",
                "MetaLeft", "Alt", "AltGr"}
OtherKeys == {"KeyA"}
Keys == TrackedKeys \cup OtherKeys
\* the keys pressed in the main specification
MainKeys == {"ShiftLeft", "KeyA"}

\* ButtonState
None == <<"None">>
Pressed(b) == <<"Pressed", b>>

\* KeyboardState::default(): every flag false
KeyboardDefault == [k \in TrackedKeys |-> FALSE]

\* MouseButton::from_rdev_event
FromRdevEvent(b) ==
    CASE b = "rdev.Left" -> "Left"
      [] b = "rdev.Right" -> "Right"
      [] b = "rdev.Middle" -> "Middle"

\* MouseButton::to_rdev_event
ToRdevEvent(m) ==
    CASE m = "Left" -> "rdev.Left"
      [] m = "Right" -> "rdev.Right"
      [] m = "Middle" -> "rdev.Middle"

\* MouseButton::from_rdev_wheel
FromRdevWheel(delta_y) == IF delta_y > 0 THEN "WheelUp" ELSE "WheelDown"

\* Edge::edges_from_pos on a screen of (MaxCoord+1) x (MaxCoord+1) pixels
EdgesFromPos(px, py) ==
    (IF py = 0 THEN {"Top"} ELSE {}) \cup (IF px = 0 THEN {"Left"} ELSE {})
    \cup (IF py = MaxCoord THEN {"Bottom"} ELSE {})
    \cup (IF px = MaxCoord THEN {"Right"} ELSE {})

\* KeyboardModifier::from_keyboard_state: the modifiers whose flag is set
FromKeyboardState(ks) == {k \in TrackedKeys : ks[k]}

\* points_to_angles: one direction per consecutive pair of points; the
\* direction is kept as the displacement the angle is taken from
PointsToAngles(pts) ==
    [i \in 1..(IF Len(pts) = 0 THEN 0 ELSE Len(pts) - 1) |->
        <<pts[i + 1].x - pts[i].x, pts[i + 1].y - pts[i].y>>]

\* PointHistory::is_full for a history of capacity c
IsFull(h, c) == Len(h) >= c

\* faulty variant: the push is not guarded by is_full
PushAlways(h, p, c) == Append(h, p)

\* faulty variant: a full history drops its oldest point to take the new one
PushWrap(h, p, c) == IF ~IsFull(h, c) THEN Append(h, p) ELSE Append(Tail(h), p)

\* PointHistory::push guarded by is_full, as both handlers write it:
\*   if !histo.is_full() { histo.push(p) } else { trace!(..) }
PushUnlessFull(h, p, c) == IF ~IsFull(h, c) THEN Append(h, p) ELSE h

\* grab.rs:81  *button_state = ButtonState::Pressed(pressed_btn)
AfterPress(bs, b) == Pressed(b)

\* faulty variant: only the release of the recorded button resets the state
AfterReleaseOfRecorded(bs, b) == IF bs = Pressed(b) THEN None ELSE bs

\* grab.rs:128  *button_state = ButtonState::None
AfterRelease(bs, b) == None

\* faulty variant: the press-phase event is seeded with the press position
PressClickSeeded(b, lp, ks) ==
    [button |-> FromRdevEvent(b),
     edges |-> EdgesFromPos(lp.x, lp.y),
     modifiers |-> FromKeyboardState(ks),
     event_type |-> "Press",
     shape_angles |-> <<>>,
     shape_xy |-> <<lp>>]

\* grab.rs:84-91  the press-phase ClickEvent for button b, from the
\* last-known point lp and the keyboard state ks
PressClick(b, lp, ks) ==
    [button |-> FromRdevEvent(b),
     edges |-> EdgesFromPos(lp.x, lp.y),
     modifiers |-> FromKeyboardState(ks),
     event_type |-> "Press",
     shape_angles |-> <<>>,
     shape_xy |-> <<>>]

\* faulty variant: the trace is cloned after the history was cleared
ReleaseClickAfterClear(b, lp, ks, h) ==
    [button |-> FromRdevEvent(b),
     edges |-> EdgesFromPos(lp.x, lp.y),
     modifiers |-> FromKeyboardState(ks),
     event_type |-> "Release",
     shape_angles |-> PointsToAngles(h),
     shape_xy |-> <<>>]

\* grab.rs:111, 118-126  the release-phase ClickEvent, with the angles and
\* the clone of the history h
ReleaseClick(b, lp, ks, h) ==
    [button |-> FromRdevEvent(b),
     edges |-> EdgesFromPos(lp.x, lp.y),
     modifiers |-> FromKeyboardState(ks),
     event_type |-> "Release",
     shape_angles |-> PointsToAngles(h),
     shape_xy |-> h]

\* grab.rs:137-145  the ClickEvent of a wheel event
WheelClick(d, lp, ks) ==
    [button |-> FromRdevWheel(d),
     edges |-> EdgesFromPos(lp.x, lp.y),
     modifiers |-> FromKeyboardState(ks),
     event_type |-> "Release",
     shape_angles |-> <<>>,
     shape_xy |-> <<>>]

\* faulty variant: the shape press is propagated when the resolver allows it
ShapePressResultAsked(v) == IF v THEN "Some" ELSE "None"

\* grab.rs:102  return None, whatever process_event_fn returned
ShapePressResult(v) == "None"

\* faulty variant: the event is propagated whatever the resolver returned
ResolverResultIgnored(v) == "Some"

\* grab.rs:104-108, 130-134, 146-150  Some(event) if process_event_fn
\* returned true, None otherwise
ResolverResult(v) == IF v THEN "Some" ELSE "None"

\* faulty variant: the ShiftRight arm writes the shift_left flag
SetKeyWrongArm(ks, k, v) ==
    IF k = "ShiftRight" THEN [ks EXCEPT !["ShiftLeft"] = v]
    ELSE IF k \in TrackedKeys THEN [ks EXCEPT ![k] = v] ELSE ks

\* the match of grab.rs:153-162 (v = true) and grab.rs:166-175 (v = false)
SetKey(ks, k, v) == IF k \in TrackedKeys THEN [ks EXCEPT ![k] = v] ELSE ks

\* ------------------------------------------------------ normalize_points
\* Point holds i32 coordinates: the arithmetic of normalize_points is i32
\* arithmetic.  An operation that overflows panics when the build has
\* overflow checks (the dev profile) and wraps otherwise (the release
\* profile); each operation returns its wrapped value v and whether it
\* overflowed, o.
MaxI32 == 2147483647
MinI32 == -MaxI32 - 1
I32(val, ovf) == [v |-> val, o |-> ovf]

\* a - b
Sub32(a, b) ==
    IF b < 0 /\ a > MaxI32 + b
    THEN I32((a - MaxI32 - 1) - (b + MaxI32 + 1), TRUE)
    ELSE IF b > 0 /\ a < MinI32 + b
    THEN I32((a + MaxI32 + 1) - (b - MaxI32 - 1), TRUE)
    ELSE I32(a - b, FALSE)

\* a + b
Add32(a, b) ==
    IF b > 0 /\ a > MaxI32 - b
    THEN I32((a - MaxI32 - 1) + (b - MaxI32 - 1), TRUE)
    ELSE IF b < 0 /\ a < MinI32 - b
    THEN I32((a + MaxI32 + 1) + (b + MaxI32 + 1), TRUE)
    ELSE I32(a + b, FALSE)

\* 100 * d, the wrapped product taken on the 16-bit halves of d
Mul100(d) ==
    LET lo == d % 65536
        hi == (d \div 65536) % 65536
        plo == 100 * lo
        rlo == plo % 65536
        rhi == (100 * hi + plo \div 65536) % 65536
        wrapped == IF rhi >= 32768 THEN (rhi - 65536) * 65536 + rlo
                   ELSE rhi * 65536 + rlo
    IN IF d > MaxI32 \div 100 \/ d < -(MaxI32 \div 100)
       THEN I32(wrapped, TRUE)
       ELSE I32(100 * d, FALSE)

\* a / b for b > 0: i32 division truncates toward zero
Div32(a, b) ==
    IF a >= 0 THEN a \div b
    ELSE IF a % b = 0 THEN a \div b ELSE (a \div b) + 1

\* .iter().map(..).min().unwrap() and .max().unwrap()
MinOf(S) == CHOOSE m \in S : \A e \in S : m <= e
MaxOf(S) == CHOOSE m \in S : \A e \in S : m >= e

\* .iter().map(..).sum::<i32>()
RECURSIVE Sum32(_)
Sum32(ns) ==
    IF ns = <<>> THEN I32(0, FALSE)
    ELSE LET head == Sum32(SubSeq(ns, 1, Len(ns) - 1))
             s == Add32(head.v, ns[Len(ns)])
         IN I32(s.v, head.o \/ s.o)

\* 100 * (c - origin) / span, grab.rs:200-201 and 207-208
Scale(c, origin, span) ==
    LET d == Sub32(c, origin)
        m == Mul100(d.v)
    IN I32(Div32(m.v, span), d.o \/ m.o)

\* normalize_points (grab.rs:181-215): the points it pushes to out, whether
\* one of its operations overflowed, and whether it divided by zero
NormalizePoints(pts, avg) ==
    IF pts = <<>>
    THEN [out |-> <<>>, overflow |-> FALSE, div_by_zero |-> FALSE]
    ELSE
    LET xs == [i \in DOMAIN pts |-> pts[i].x]
        ys == [i \in DOMAIN pts |-> pts[i].y]
        min_x == MinOf({xs[i] : i \in DOMAIN pts})
        max_x == MaxOf({xs[i] : i \in DOMAIN pts})
        width == Sub32(max_x, min_x)
        min_y == MinOf({ys[i] : i \in DOMAIN pts})
        max_y == MaxOf({ys[i] : i \in DOMAIN pts})
        height == Sub32(max_y, min_y)
        sum_x == Sum32(xs)
        sum_y == Sum32(ys)
        avg_x == Div32(sum_x.v, Len(pts))
        avg_y == Div32(sum_y.v, Len(pts))
        org_x == IF avg THEN avg_x ELSE min_x
        org_y == IF avg THEN avg_y ELSE min_y
        sx == [i \in DOMAIN pts |-> Scale(xs[i], org_x, width.v)]
        sy == [i \in DOMAIN pts |-> Scale(ys[i], org_y, height.v)]
    IN IF width.v > 0 /\ height.v > 0
       THEN [out |-> [i \in DOMAIN pts |-> Pt(sx[i].v, sy[i].v)],
             overflow |-> \/ width.o \/ height.o
                          \/ avg /\ (sum_x.o \/ sum_y.o)
                          \/ \E i \in DOMAIN pts : sx[i].o \/ sy[i].o,
             div_by_zero |-> FALSE]
       ELSE [out |-> <<>>,
             overflow |-> width.o \/ height.o,
             div_by_zero |-> FALSE]

\* the coordinates of the traces normalize_points is applied to: small ones,
\* the ends of i32, and the first span 100 * span does not fit in
NormCoords == {MinI32, 0, 1, 3, MaxI32 \div 100 + 1, MaxI32}
NormPoints == {Pt(cx, cy) : cx \in NormCoords, cy \in NormCoords}
Traces == UNION {[1..n -> NormPoints] : n \in 0..MaxTrace}

\* ------------------------------------------------------- configuration
\* serde reads a shapes_xy entry, a flat list of integers, as points
PairUp(flat) == [i \in 1..(Len(flat) \div 2) |-> Pt(flat[2 * i - 1], flat[2 * i])]

\* the file init_config_file_if_not_exists writes
FileRight == [kind |-> "json",
              text |-> [shape_button |-> "Right", bindings |-> <<>>]]
\* the file of test_json_deserialize, with Left as the shape button
FileLeft == [kind |-> "json",
             text |-> [shape_button |-> "Left",
                       bindings |-> << [event |-> [button |-> "Left",
                                                   edges |-> <<"Top", "Left">>,
                                                   modifiers |-> <<"ControlLeft">>,
                                                   event_type |-> "Press",
                                                   shapes_xy |-> << <<0, 1, 2, 3>> >>],
                                        cmd |-> <<"xlogo">>] >>]]
\* a path fs::read_to_string fails on
FileUnreadable == [kind |-> "unreadable"]
\* a text serde_json::from_str fails on
FileUnparsable == [kind |-> "unparsable"]

ValidFiles == {FileRight, FileLeft}
Files == ValidFiles \cup {FileUnreadable, FileUnparsable}

\* load / load_from_str succeed: both unwrap() calls return
LoadSucceeds(f) == f.kind = "json"

\* load_from_str: parse, then derive shapes_angles from shapes_xy
LoadFromStr(text) ==
    [shape_button |-> text.shape_button,
     bindings |->
        [i \in DOMAIN text.bindings |->
            LET b == text.bindings[i]
                xy == [j \in DOMAIN b.event.shapes_xy |-> PairUp(b.event.shapes_xy[j])]
            IN [event |-> [button |-> b.event.button,
                           edges |-> b.event.edges,
                           modifiers |-> b.event.modifiers,
                           event_type |-> b.event.event_type,
                           shapes_xy |-> xy,
                           shapes_angles |-> [j \in DOMAIN xy |-> PointsToAngles(xy[j])]],
                cmd |-> b.cmd]]]

\* get_config / load on a file that reads and parses
GetConfig(f) == LoadFromStr(f.text)

\* ------------------------------------------------------------- the state
VARIABLES
    \* GrabContext (grab.rs:15-22) and its construction (grab.rs:29-32)
    point_history, button_state, keyboard_state, config, last_point,
    no_listen,        \* args.no_listen
    cap,              \* capacity of point_history
    locks,            \* owner of each Mutex: "free", "hook" or "watcher"
    \* the hook thread inside grab_event_fn
    pc,               \* "idle", the line the thread is about to execute, or
                      \* "returned": the instant the callback hands back its value
    ev,               \* the event being handled
    pressed_btn, last_point_clone, click_event,   \* its locals
    \* what the callback did with the event
    calls,            \* calls of process_event_fn made for ev
    verdict,          \* what process_event_fn returned
    passed,           \* the ClickEvent it was given
    heldAtCall,       \* the locks the hook thread held when it called
    ret,              \* "Some" (propagate), "None" (suppress), "pending"
    logFull,          \* trace!("point_history is full !") was emitted for ev
    \* watch_config thread, its channel and the file
    wpc, wloaded, rx, file,
    \* history of the run
    pressedKeys,      \* tracked keys whose most recent key event was a press
    gest,             \* the press-moves-release scenario in progress
    attempt,          \* the watcher's last reload: the configuration before
                      \* it, and whether the file failed to load
    \* a call of normalize_points(input_points, use_avg)
    input_points, use_avg,
    overflow_checks,  \* the build panics on integer overflow
    out,              \* the PointHistory the call returned
    npc               \* "none", "call", "returned" or "panicked"

sharedVars == <<point_history, button_state, keyboard_state, config, last_point>>
grabVars == <<point_history, button_state, keyboard_state, last_point>>
normVars == <<input_points, use_avg, overflow_checks, out, npc>>
\* what no step of the hook, tracker and watcher threads changes
envVars == <<no_listen, cap, normVars>>
localVars == <<pressed_btn, last_point_clone, click_event>>
callVars == <<calls, verdict, passed, heldAtCall>>
hookVars == <<pc, ev, localVars, callVars, ret, logFull, pressedKeys, gest>>
watchVars == <<wpc, wloaded, rx, file, attempt>>
vars == <<sharedVars, envVars, locks, hookVars, watchVars>>

Locks == {"point_history", "button_state", "keyboard_state", "last_point", "config"}

NoClick == [button |-> "none", edges |-> {}, modifiers |-> {},
            event_type |-> "none", shape_angles |-> <<>>, shape_xy |-> <<>>]
NoEvent == [type |-> "none"]
NoConfig == [shape_button |-> "none", bindings |-> <<>>]
DeadGest == [live |-> FALSE, stable |-> FALSE, trail |-> <<>>, extra |-> 0]
NoAttempt == [failed |-> FALSE, before |-> NoConfig]

Free(l) == locks[l] = "free"
HookHeld == {l \in Locks : locks[l] = "hook"}
Take(l) == [locks EXCEPT ![l] = "hook"]
Drop(ls) == [l \in Locks |-> IF l \in ls THEN "free" ELSE locks[l]]

\* grab.rs:29-32 and the first load of the configuration, for a
\* PointHistory of capacity c
InitGrab(c) ==
    /\ point_history = <<>>
    /\ button_state = None
    /\ keyboard_state = KeyboardDefault
    /\ last_point = StartPoint
    /\ file \in ValidFiles
    /\ config = GetConfig(file)
    /\ no_listen \in BOOLEAN
    /\ cap = c
    /\ locks = [l \in Locks |-> "free"]
    /\ pc = "idle"
    /\ ev = NoEvent
    /\ pressed_btn = "none"
    /\ last_point_clone = StartPoint
    /\ click_event = NoClick
    /\ calls = 0
    /\ verdict = FALSE
    /\ passed = NoClick
    /\ heldAtCall = {}
    /\ ret = "pending"
    /\ logFull = FALSE
    /\ wpc = "recv"
    /\ wloaded = NoConfig
    /\ rx = <<>>
    /\ pressedKeys = {}
    /\ gest = DeadGest
    /\ attempt = NoAttempt

\* no call of normalize_points is made: the Trace branch of grab.rs:113-117
\* is off
NoNormalize ==
    /\ input_points = <<>>
    /\ use_avg = FALSE
    /\ overflow_checks = FALSE
    /\ out = <<>>
    /\ npc = "none"

InitWith(c) == InitGrab(c) /\ NoNormalize

Init == InitWith(Cap)

\* ------------------------------------------------ the hook thread: helpers
\* what no statement of grab_event_fn touches
hookFrame == <<envVars, watchVars, config>>

\* grab (grab.rs:38-48) calls grab_event_fn with the next raw event
Arrive(e) ==
    /\ pc = "idle"
    /\ ev' = e

\* grab_event_fn returns r: its locals go out of scope
Return(r) ==
    /\ pc' = "returned"
    /\ ret' = r
    /\ pressed_btn' = "none"
    /\ last_point_clone' = StartPoint
    /\ click_event' = NoClick

\* process_event_fn(config, click_event, args) is called with ce and returns
\* v; it locks the configuration it is handed
CallResolver(ce, v) ==
    /\ Free("config")
    /\ calls' = calls + 1
    /\ verdict' = v
    /\ passed' = ce
    /\ heldAtCall' = HookHeld

\* the scenario "press of the shape button at rest, moves, release" when the
\* classifier tracks the cursor itself, as the events describe it: the cursor
\* at the press, then the target of each move
GestOnMove(g, p) ==
    IF g.live
    THEN IF Len(g.trail) < cap
         THEN [g EXCEPT !.trail = Append(@, p)]
         ELSE [g EXCEPT !.extra = IF @ < ExtraMoves THEN @ + 1 ELSE @]
    ELSE g

\* the caller has the value: the record of the call is dropped.  No other
\* thread is scheduled between Return and Leave, which are one instant.
Leave ==
    /\ pc = "returned"
    /\ pc' = "idle"
    /\ ev' = NoEvent
    /\ calls' = 0
    /\ verdict' = FALSE
    /\ passed' = NoClick
    /\ heldAtCall' = {}
    /\ ret' = "pending"
    /\ logFull' = FALSE
    /\ gest' = IF ev.type = "ButtonRelease" THEN DeadGest ELSE gest
    /\ UNCHANGED <<sharedVars, envVars, locks, localVars, pressedKeys, watchVars>>

\* ------------------------------------------------------------ MouseMove
\* grab.rs:64-68  the guard of button_state lives to the end of the if-let
MouseMove(p) ==
    /\ Arrive([type |-> "MouseMove", x |-> p.x, y |-> p.y])
    /\ IF no_listen
       THEN Free("last_point") /\ last_point' = Pt(p.x, p.y)
       ELSE UNCHANGED last_point
    /\ Free("button_state")
    /\ IF button_state # None
       THEN /\ pressed_btn' = button_state[2]
            /\ locks' = Take("button_state")
            /\ pc' = "L69"
            /\ UNCHANGED <<ret, last_point_clone, click_event>>
       ELSE /\ Return("Some")
            /\ UNCHANGED locks
    /\ gest' = GestOnMove(gest, Pt(p.x, p.y))
    /\ UNCHANGED <<point_history, button_state, keyboard_state, callVars, logFull,
                   pressedKeys, hookFrame>>

\* faulty variant: the configured shape button is not compared, a move is
\* recorded while any button is pressed
Move69AnyPressed ==
    /\ pc = "L69"
    /\ Free("config")
    /\ pc' = "L70"
    /\ UNCHANGED <<ret, localVars, locks, gest>>
    /\ UNCHANGED <<sharedVars, ev, callVars, logFull, pressedKeys,
                   envVars, watchVars>>

\* grab.rs:69  the guard of config is dropped with the condition
Move69 ==
    /\ pc = "L69"
    /\ Free("config")
    /\ IF ToRdevEvent(config.shape_button) = pressed_btn
       THEN /\ pc' = "L70"
            /\ UNCHANGED <<ret, localVars, locks, gest>>
       ELSE /\ Return("Some")
            /\ locks' = Drop({"button_state"})
            /\ gest' = IF gest.live THEN [gest EXCEPT !.stable = FALSE] ELSE gest
    /\ UNCHANGED <<sharedVars, ev, callVars, logFull, pressedKeys,
                   envVars, watchVars>>

\* grab.rs:70-78  push of *last_point unless full, under the guard of
\* point_history; both guards are dropped at the end of their blocks
Move70 ==
    /\ pc = "L70"
    /\ Free("point_history")
    /\ IsFull(point_history, cap) \/ Free("last_point")
    /\ point_history' = PushUnlessFull(point_history, last_point, cap)
    /\ logFull' = IsFull(point_history, cap)
    /\ locks' = Drop({"point_history", "button_state"})
    /\ Return("Some")
    /\ UNCHANGED <<button_state, keyboard_state, last_point, ev, callVars, pressedKeys,
                   gest, hookFrame>>

\* ---------------------------------------------------------- ButtonPress
\* grab.rs:80-91
ButtonPress(b) ==
    /\ Arrive([type |-> "ButtonPress", btn |-> b, shape |-> FALSE])
    /\ Free("button_state") /\ Free("last_point") /\ Free("keyboard_state")
    /\ button_state' = AfterPress(button_state, b)
    /\ last_point_clone' = last_point
    /\ click_event' = PressClick(b, last_point, keyboard_state)
    /\ pc' = "L92"
    /\ gest' = IF no_listen /\ button_state = None /\ point_history = <<>>
               THEN [live |-> TRUE, stable |-> TRUE, trail |-> <<last_point>>, extra |-> 0]
               ELSE DeadGest
    /\ UNCHANGED <<point_history, keyboard_state, last_point, locks, pressed_btn, callVars,
                   ret, logFull, pressedKeys, hookFrame>>

\* faulty variant: the guard of config taken for the comparison is kept to
\* the end of the block, as a guard bound by `let` or `if let` would be
Press92HoldsConfig ==
    /\ pc = "L92"
    /\ Free("config")
    /\ IF ToRdevEvent(config.shape_button) = ev.btn
       THEN /\ Free("point_history")
            /\ locks' = [locks EXCEPT !["point_history"] = "hook", !["config"] = "hook"]
            /\ point_history' = PushUnlessFull(point_history, last_point_clone, cap)
            /\ logFull' = IsFull(point_history, cap)
            /\ pc' = "L99"
            /\ ev' = [ev EXCEPT !.shape = TRUE]
            /\ UNCHANGED gest
       ELSE /\ pc' = "L104"
            /\ gest' = DeadGest
            /\ UNCHANGED <<point_history, logFull, locks, ev>>
    /\ UNCHANGED <<button_state, keyboard_state, last_point, localVars, callVars, ret,
                   pressedKeys, hookFrame>>

\* grab.rs:92-98  the guard of config is dropped with the condition; histo
\* is held to the end of the block
Press92 ==
    /\ pc = "L92"
    /\ Free("config")
    /\ IF ToRdevEvent(config.shape_button) = ev.btn
       THEN /\ Free("point_history")
            /\ locks' = Take("point_history")
            /\ point_history' = PushUnlessFull(point_history, last_point_clone, cap)
            /\ logFull' = IsFull(point_history, cap)
            /\ pc' = "L99"
            /\ ev' = [ev EXCEPT !.shape = TRUE]
            /\ UNCHANGED gest
       ELSE /\ pc' = "L104"
            /\ gest' = DeadGest
            /\ UNCHANGED <<point_history, logFull, locks, ev>>
    /\ UNCHANGED <<button_state, keyboard_state, last_point, localVars, callVars, ret,
                   pressedKeys, hookFrame>>

\* faulty variant: a history of exactly ten points still counts as short
Press99AtMost(v) ==
    /\ pc = "L99"
    /\ IF Len(point_history) <= ShortThreshold
       THEN CallResolver(click_event, v)
       ELSE UNCHANGED callVars
    /\ locks' = Drop({"point_history"})
    /\ Return(ShapePressResult(v))
    /\ UNCHANGED <<sharedVars, ev, logFull, pressedKeys, gest,
                   envVars, watchVars>>

\* grab.rs:99-103
Press99(v) ==
    /\ pc = "L99"
    /\ IF Len(point_history) < ShortThreshold
       THEN CallResolver(click_event, v)
       ELSE UNCHANGED callVars
    /\ locks' = Drop({"point_history"})
    /\ Return(ShapePressResult(v))
    /\ UNCHANGED <<sharedVars, ev, logFull, pressedKeys, gest,
                   envVars, watchVars>>

\* grab.rs:104-108
Press104(v) ==
    /\ pc = "L104"
    /\ CallResolver(click_event, v)
    /\ Return(ResolverResult(v))
    /\ UNCHANGED <<sharedVars, ev, locks, logFull, pressedKeys, gest,
                   envVars, watchVars>>

\* -------------------------------------------------------- ButtonRelease
\* faulty variant: the release resets ButtonState and leaves the history
ButtonReleaseKeepsHistory(b) ==
    /\ Arrive([type |-> "ButtonRelease", btn |-> b])
    /\ Free("point_history") /\ Free("last_point") /\ Free("keyboard_state")
    /\ Free("button_state")
    /\ click_event' = ReleaseClick(b, last_point, keyboard_state, point_history)
    /\ button_state' = AfterRelease(button_state, b)
    /\ pc' = "L130"
    /\ UNCHANGED <<point_history, keyboard_state, last_point, locks, pressed_btn,
                   last_point_clone, callVars, ret, logFull, pressedKeys, gest,
                   hookFrame>>

\* grab.rs:110-128  (the Trace branch of 113-117 only reads point_history)
ButtonRelease(b) ==
    /\ Arrive([type |-> "ButtonRelease", btn |-> b])
    /\ Free("point_history") /\ Free("last_point") /\ Free("keyboard_state")
    /\ Free("button_state")
    /\ click_event' = ReleaseClick(b, last_point, keyboard_state, point_history)
    /\ point_history' = <<>>
    /\ button_state' = AfterRelease(button_state, b)
    /\ pc' = "L130"
    /\ UNCHANGED <<keyboard_state, last_point, locks, pressed_btn, last_point_clone,
                   callVars, ret, logFull, pressedKeys, gest, hookFrame>>

\* grab.rs:130-134
Release130(v) ==
    /\ pc = "L130"
    /\ CallResolver(click_event, v)
    /\ Return(ResolverResult(v))
    /\ UNCHANGED <<sharedVars, ev, locks, logFull, pressedKeys, gest,
                   envVars, watchVars>>

\* ---------------------------------------------------------------- Wheel
\* faulty variant: the wheel arm ends the gesture as the release arm does
WheelAsRelease(d) ==
    /\ Arrive([type |-> "Wheel", delta_y |-> d])
    /\ Free("last_point") /\ Free("keyboard_state")
    /\ Free("point_history") /\ Free("button_state")
    /\ click_event' = WheelClick(d, last_point, keyboard_state)
    /\ point_history' = <<>>
    /\ button_state' = None
    /\ pc' = "L146"
    /\ UNCHANGED <<keyboard_state, config, last_point, locks, pressed_btn,
                   last_point_clone, callVars, ret, logFull, pressedKeys, gest,
                   envVars, watchVars>>

\* grab.rs:136-145
Wheel(d) ==
    /\ Arrive([type |-> "Wheel", delta_y |-> d])
    /\ Free("last_point") /\ Free("keyboard_state")
    /\ click_event' = WheelClick(d, last_point, keyboard_state)
    /\ pc' = "L146"
    /\ UNCHANGED <<sharedVars, locks, pressed_btn, last_point_clone, callVars, ret,
                   logFull, pressedKeys, gest, envVars, watchVars>>

\* grab.rs:146-150
Wheel146(v) ==
    /\ pc = "L146"
    /\ CallResolver(click_event, v)
    /\ Return(ResolverResult(v))
    /\ UNCHANGED <<sharedVars, ev, locks, logFull, pressedKeys, gest,
                   envVars, watchVars>>

\* ------------------------------------------------- KeyPress, KeyRelease
\* grab.rs:152-164
KeyPress(k) ==
    /\ Arrive([type |-> "KeyPress", key |-> k])
    /\ k \in TrackedKeys => Free("keyboard_state")
    /\ keyboard_state' = SetKey(keyboard_state, k, TRUE)
    /\ Return("Some")
    /\ pressedKeys' = IF k \in TrackedKeys THEN pressedKeys \cup {k} ELSE pressedKeys
    /\ UNCHANGED <<point_history, button_state, last_point, locks, callVars, logFull,
                   gest, hookFrame>>

\* grab.rs:165-177
KeyRelease(k) ==
    /\ Arrive([type |-> "KeyRelease", key |-> k])
    /\ k \in TrackedKeys => Free("keyboard_state")
    /\ keyboard_state' = SetKey(keyboard_state, k, FALSE)
    /\ Return("Some")
    /\ pressedKeys' = IF k \in TrackedKeys THEN pressedKeys \ {k} ELSE pressedKeys
    /\ UNCHANGED <<point_history, button_state, last_point, locks, callVars, logFull,
                   gest, hookFrame>>

\* ------------------------------------------------------ cursor tracker
\* listen::start_listen(last_point), started unless args.no_listen
\* (grab.rs:33-35): it stores the pointer's position
TrackCursor(p) ==
    /\ ~no_listen
    /\ pc # "returned"
    /\ Free("last_point")
    /\ last_point' = p
    /\ UNCHANGED <<point_history, button_state, keyboard_state, config, envVars, locks,
                   hookVars, watchVars>>

\* --------------------------------------------------------- watch_config
\* the user saves the configuration file: notify reports Close(Write)
WriteFile(f) ==
    /\ pc # "returned"
    /\ file' = f
    /\ IF wpc = "dead"
       THEN UNCHANGED rx
       ELSE Len(rx) < MaxQueue /\ rx' = Append(rx, "CloseWrite")
    /\ UNCHANGED <<sharedVars, envVars, locks, hookVars, wpc, wloaded, attempt>>

\* notify reports anything else (an open, a modify, an error of the watch)
OtherNotify ==
    /\ pc # "returned"
    /\ wpc # "dead"
    /\ Len(rx) < MaxQueue
    /\ rx' = Append(rx, "Other")
    /\ UNCHANGED <<sharedVars, envVars, locks, hookVars, wpc, wloaded, file, attempt>>

\* config.rs:74-79, 82  rx.recv() returns the next notification
WatchRecv ==
    /\ pc # "returned"
    /\ wpc = "recv"
    /\ rx # <<>>
    /\ rx' = Tail(rx)
    /\ wpc' = IF Head(rx) = "CloseWrite" THEN "load" ELSE "recv"
    /\ UNCHANGED <<sharedVars, envVars, locks, hookVars, wloaded, file, attempt>>

\* faulty variant: a file that fails to load yields an empty configuration,
\* which is then stored
WatchLoadOrEmpty ==
    /\ pc # "returned"
    /\ wpc = "load"
    /\ wloaded' = IF LoadSucceeds(file) THEN GetConfig(file) ELSE NoConfig
    /\ wpc' = "lock"
    /\ attempt' = IF LoadSucceeds(file)
                  THEN NoAttempt
                  ELSE [failed |-> TRUE, before |-> config]
    /\ UNCHANGED <<sharedVars, envVars, locks, hookVars, rx, file>>

\* faulty variant: the lock is taken first, in a step of its own, and held
\* while the file is read and parsed
WatchLoadLocked ==
    /\ pc # "returned"
    /\ wpc = "load"
    /\ IF locks["config"] # "watcher"
       THEN /\ Free("config")
            /\ locks' = [locks EXCEPT !["config"] = "watcher"]
            /\ UNCHANGED <<wloaded, wpc, rx, attempt>>
       ELSE /\ IF LoadSucceeds(file)
               THEN wloaded' = GetConfig(file) /\ wpc' = "store" /\ UNCHANGED rx
               ELSE wloaded' = NoConfig /\ wpc' = "dead" /\ rx' = <<>>
            /\ attempt' = IF LoadSucceeds(file)
                          THEN NoAttempt
                          ELSE [failed |-> TRUE, before |-> config]
            /\ UNCHANGED locks
    /\ UNCHANGED <<sharedVars, envVars, hookVars, file>>

\* config.rs:80, right operand: get_config(&config_path), evaluated before
\* the assignee; an unwrap() of load / load_from_str panics the thread,
\* which drops the receiver
WatchLoad ==
    /\ pc # "returned"
    /\ wpc = "load"
    /\ IF LoadSucceeds(file)
       THEN wloaded' = GetConfig(file) /\ wpc' = "lock" /\ UNCHANGED rx
       ELSE wloaded' = NoConfig /\ wpc' = "dead" /\ rx' = <<>>
    /\ attempt' = IF LoadSucceeds(file)
                  THEN NoAttempt
                  ELSE [failed |-> TRUE, before |-> config]
    /\ UNCHANGED <<sharedVars, envVars, locks, hookVars, file>>

\* config.rs:80, assignee: config.lock().unwrap()
WatchLock ==
    /\ pc # "returned"
    /\ wpc = "lock"
    /\ Free("config")
    /\ locks' = [locks EXCEPT !["config"] = "watcher"]
    /\ wpc' = "store"
    /\ UNCHANGED <<sharedVars, envVars, hookVars, wloaded, rx, file, attempt>>

\* faulty variant: the store updates the shape button of the configuration
\* in place and leaves its bindings
WatchStoreShapeOnly ==
    /\ pc # "returned"
    /\ wpc = "store"
    /\ config' = [config EXCEPT !.shape_button = wloaded.shape_button]
    /\ wloaded' = NoConfig
    /\ locks' = [locks EXCEPT !["config"] = "free"]
    /\ wpc' = "recv"
    /\ UNCHANGED <<grabVars, envVars, hookVars, rx, file, attempt>>

\* config.rs:80, the assignment; the guard is dropped with the statement
WatchStore ==
    /\ pc # "returned"
    /\ wpc = "store"
    /\ config' = wloaded
    /\ wloaded' = NoConfig
    /\ locks' = [locks EXCEPT !["config"] = "free"]
    /\ wpc' = "recv"
    /\ UNCHANGED <<grabVars, envVars, hookVars, rx, file, attempt>>

\* ------------------------------------------------------- specifications
\* every statement of grab_event_fn after the first of a handler
HookStep ==
    \/ Move69 \/ Move70 \/ Press92
    \/ \E v \in BOOLEAN : Press99(v)
    \/ \E v \in BOOLEAN : Press104(v)
    \/ \E v \in BOOLEAN : Release130(v)
    \/ \E v \in BOOLEAN : Wheel146(v)
    \/ Leave

WatchStep == WatchRecv \/ WatchLoad \/ WatchLock \/ WatchStore

\* the gesture machine: pointer, buttons and wheel, the cursor tracker and
\* the watcher reloading valid files
Next ==
    \/ \E p \in Points : MouseMove(p)
    \/ \E b \in RdevButtons : ButtonPress(b)
    \/ \E b \in RdevButtons : ButtonRelease(b)
    \/ \E d \in WheelDeltas : Wheel(d)
    \/ \E k \in MainKeys : KeyPress(k)
    \/ \E k \in MainKeys : KeyRelease(k)
    \/ HookStep
    \/ \E p \in Points : TrackCursor(p)
    \/ \E f \in ValidFiles : WriteFile(f)
    \/ WatchStep

Spec == Init /\ [][Next]_vars

\* the keyboard machine: every key, with the buttons and the wheel, the
\* pointer at rest and the configuration fixed
InitKeys == InitWith(Cap) /\ no_listen /\ file = FileRight

NextKeys ==
    \/ \E k \in Keys : KeyPress(k)
    \/ \E k \in Keys : KeyRelease(k)
    \/ \E b \in RdevButtons : ButtonPress(b)
    \/ \E b \in RdevButtons : ButtonRelease(b)
    \/ \E d \in WheelDeltas : Wheel(d)
    \/ Press92
    \/ \E v \in BOOLEAN : Press99(v)
    \/ \E v \in BOOLEAN : Press104(v)
    \/ \E v \in BOOLEAN : Release130(v)
    \/ \E v \in BOOLEAN : Wheel146(v)
    \/ Leave

SpecKeys == InitKeys /\ [][NextKeys]_vars

\* the reload machine: the watcher with files of every kind, and button
\* presses reading the configuration
NextWatch ==
    \/ \E f \in Files : WriteFile(f)
    \/ OtherNotify
    \/ WatchStep
    \/ \E b \in RdevButtons : ButtonPress(b)
    \/ Press92
    \/ \E v \in BOOLEAN : Press99(v)
    \/ \E v \in BOOLEAN : Press104(v)
    \/ Leave

SpecWatch == Init /\ [][NextWatch]_vars

\* long gestures: a PointHistory that holds more than ShortThreshold points,
\* the classifier tracking the cursor itself, the pointer moved in place and
\* the configuration fixed
InitLong == InitWith(ShortThreshold + 1) /\ no_listen /\ file = FileRight

NextLong ==
    \/ MouseMove(StartPoint)
    \/ \E b \in RdevButtons : ButtonPress(b)
    \/ \E b \in RdevButtons : ButtonRelease(b)
    \/ Move69 \/ Move70 \/ Press92
    \/ \E v \in BOOLEAN : Press99(v)
    \/ \E v \in BOOLEAN : Press104(v)
    \/ \E v \in BOOLEAN : Release130(v)
    \/ Leave

SpecLong == InitLong /\ [][NextLong]_vars

\* normalize_points applied to a trace, in one of its two modes, by a build
\* with or without overflow checks
InitNorm ==
    /\ InitGrab(Cap) /\ no_listen /\ file = FileRight
    /\ input_points \in Traces
    /\ use_avg \in BOOLEAN
    /\ overflow_checks \in BOOLEAN
    /\ out = <<>>
    /\ npc = "call"

\* the call of normalize_points: it returns out, or panics on an overflow
Normalize ==
    /\ npc = "call"
    /\ LET r == NormalizePoints(input_points, use_avg)
       IN IF (r.overflow /\ overflow_checks) \/ r.div_by_zero
          THEN npc' = "panicked" /\ out' = <<>>
          ELSE npc' = "returned" /\ out' = r.out
    /\ UNCHANGED <<sharedVars, no_listen, cap, locks, hookVars, watchVars,
                   input_points, use_avg, overflow_checks>>

NextNorm == Normalize

SpecNorm == InitNorm /\ [][NextNorm]_vars

\* ------------------------------------------------------------ properties
Handled(t) == pc = "returned" /\ ev.type = t
TraceOf(ce) == ce.shape_xy
Carries(ce) == ce.shape_angles # <<>> \/ ce.shape_xy # <<>>

\* C1: in every reachable state the length of PointHistory is at most its
\* capacity.
C1_HistoryWithinCapacity == Len(point_history) <= cap

\* a move was handled with the history full, and its point was dropped
C1_Witness == Handled("MouseMove") /\ logFull /\ Len(point_history) = cap

C3_LastPressWins ==
    [][/\ ev'.type = "ButtonPress" =>
            /\ button_state' = Pressed(ev'.btn)
            /\ Len(point_history') >= Len(point_history)
            /\ SubSeq(point_history', 1, Len(point_history)) = point_history
       /\ ev'.type = "ButtonRelease" => button_state' = None]_vars

\* a button other than the shape button was pressed during a gesture: the
\* state is Pressed with that button and the gesture's points are still there
C3_Witness ==
    /\ Handled("ButtonPress") /\ ~ev.shape
    /\ point_history # <<>>
    /\ button_state = Pressed(ev.btn)

\* the scenario of C4 was followed up to the release just handled
C4_Scenario ==
    /\ Handled("ButtonRelease")
    /\ no_listen
    /\ gest.live
    /\ gest.extra = 0

\* C4, as claimed: without a cursor tracker, from rest with the cursor at p0,
\* a shape-button press, k moves to p1..pk (k+1 <= capacity, no other button
\* event) and a release give a Release event whose trace is [p0, p1, .., pk].
C4_TraceOfGestureAsClaimed ==
    C4_Scenario =>
        /\ calls = 1
        /\ passed.event_type = "Release"
        /\ TraceOf(passed) = gest.trail

\* C4, amended: the same, provided the configured shape button was still the
\* pressed button each time a move was handled.
C4_TraceOfGesture ==
    (C4_Scenario /\ gest.stable) =>
        /\ calls = 1
        /\ passed.event_type = "Release"
        /\ TraceOf(passed) = gest.trail

\* a gesture of `cap` points, not all equal, was released
C4_Witness ==
    /\ C4_Scenario /\ gest.stable
    /\ Len(gest.trail) = cap
    /\ gest.trail[1] # gest.trail[Len(gest.trail)]
    /\ TraceOf(passed) = gest.trail

\* C5, as claimed: an event given to the resolver carries a signature or a
\* trace only if it is the release of the configured shape button.
C5_ShapeOnlyOnShapeReleaseAsClaimed ==
    (calls > 0 /\ Carries(passed)) =>
        /\ ev.type = "ButtonRelease"
        /\ ev.btn = ToRdevEvent(config.shape_button)

\* C5, amended: press-phase events and wheel events carry neither; only a
\* release-phase event of a button release carries a signature or a trace,
\* and it may do so whichever button is released.
C5_ShapeOnlyOnRelease ==
    (calls > 0 /\ Carries(passed)) =>
        /\ ev.type = "ButtonRelease"
        /\ passed.event_type = "Release"

\* the release of a button that is not the shape button carried a trace
C5_Witness ==
    /\ Handled("ButtonRelease")
    /\ calls > 0 /\ Carries(passed)
    /\ ev.btn # ToRdevEvent(config.shape_button)

C7_Forwarded ==
    \/ Handled("ButtonPress") /\ ~ev.shape
    \/ Handled("ButtonRelease")
    \/ Handled("Wheel")

\* C7: for a press of a button other than the shape button, for every release
\* and for every wheel event, the resolver is called exactly once with the
\* classified event, and the event is propagated iff the resolver allowed it.
C7_ResolverDecides ==
    C7_Forwarded =>
        /\ calls = 1
        /\ ret = IF verdict THEN "Some" ELSE "None"
        /\ passed.button = IF ev.type = "Wheel" THEN FromRdevWheel(ev.delta_y)
                           ELSE FromRdevEvent(ev.btn)
        /\ passed.event_type = IF ev.type = "ButtonPress" THEN "Press" ELSE "Release"

\* the resolver refused a release and the release was suppressed
C7_Witness ==
    /\ Handled("ButtonRelease")
    /\ calls = 1 /\ ~verdict /\ ret = "None"

\* C9, first half: the hook thread holds no lock of GrabContext when it calls
\* the resolver.
C9_NoLockHeldAtResolverCall == calls > 0 => heldAtCall = {}

\* C8: the modifiers of every event given to the resolver are exactly the
\* tracked keys whose most recent key event was a press, and so are the flags
\* of KeyboardState that are set.
C8_ModifiersAreHeldKeys ==
    /\ \A k \in TrackedKeys : keyboard_state[k] <=> k \in pressedKeys
    /\ calls > 0 => passed.modifiers = pressedKeys

\* a wheel event was classified with two modifiers held, after ShiftRight
\* and an untracked key were pressed and ShiftRight released
C8_Witness ==
    /\ Handled("Wheel") /\ calls > 0
    /\ passed.modifiers = {"ShiftLeft", "AltGr"}

\* C10: if a reload was attempted on a file that cannot be read or parsed,
\* the configuration is what it was before the attempt.
C10_FailedReloadKeepsConfig ==
    attempt.failed => config = attempt.before

\* a reload failed on an unparsable file, with bindings loaded before it
C10_Witness ==
    /\ attempt.failed
    /\ wpc = "dead"
    /\ file = FileUnparsable
    /\ config.bindings # <<>>

\* C11, as claimed: a reload that fails on an unreadable or unparsable file
\* leaves the watcher thread running (so that it installs a later valid file).
C11_WatcherSurvivesFailedReload == attempt.failed => wpc # "dead"

\* the configurations load returns on the files that read and parse
LoadedConfigs == {GetConfig(f) : f \in ValidFiles}

\* C12: the configuration changes only in the watcher's store, which replaces
\* the whole value by the one it loaded; no step of the hook thread changes
\* it; and the configuration, whenever it can be read, is one complete loaded
\* configuration, never a mixture of two.
C12_ConfigReplacedWhole ==
    /\ [][config' # config =>
            /\ wpc = "store" /\ wpc' = "recv"
            /\ config' = wloaded
            /\ pc' = pc /\ ev' = ev]_vars
    /\ [](config \in LoadedConfigs)

\* a press was classified as a shape press under one configuration, the
\* watcher then replaced it, and the resolver was handed the new one
C12_Witness ==
    /\ Handled("ButtonPress") /\ ev.shape /\ calls = 1
    /\ ToRdevEvent(config.shape_button) # ev.btn
    /\ config = GetConfig(FileLeft)

\* C18: the watcher thread holds the lock of the configuration only in the
\* step that stores the loaded value, never while it reads and parses the
\* file.
C18_WatcherLocksOnlyToStore ==
    /\ locks["config"] = "watcher" <=> wpc = "store"
    /\ wpc \in {"load", "lock", "dead"} => locks["config"] # "watcher"

\* a reload is in progress and the hook thread, about to read the
\* configuration for a press, finds its lock free
C18_Witness ==
    /\ wpc = "load"
    /\ pc = "L92"
    /\ Free("config")
    /\ ENABLED Press92

\* the bounding box of the trace given to normalize_points
BoxXs == {input_points[i].x : i \in DOMAIN input_points}
BoxYs == {input_points[i].y : i \in DOMAIN input_points}
Degenerate ==
    \/ input_points = <<>>
    \/ MaxOf(BoxXs) = MinOf(BoxXs)
    \/ MaxOf(BoxYs) = MinOf(BoxYs)

\* C13, as claimed: in both modes normalize_points returns an empty sequence
\* for every trace that is empty or whose bounding box has zero width or zero
\* height, and it divides by zero on no trace.
C13_DegenerateGivesEmpty ==
    npc # "call" =>
        /\ ~NormalizePoints(input_points, use_avg).div_by_zero
        /\ Degenerate => (npc = "returned" /\ out = <<>>)

\* C14, as claimed: for every trace of positive width and height, min-based
\* normalize_points returns, for each point, 0 where the point has the minimum
\* x and 100 where it has the maximum x, and likewise for y.
C14_MinMaxToZeroAndHundred ==
    (npc # "call" /\ ~use_avg /\ ~Degenerate) =>
        /\ npc = "returned"
        /\ Len(out) = Len(input_points)
        /\ \A i \in DOMAIN input_points :
            /\ input_points[i].x = MinOf(BoxXs) => out[i].x = 0
            /\ input_points[i].x = MaxOf(BoxXs) => out[i].x = 100
            /\ input_points[i].y = MinOf(BoxYs) => out[i].y = 0
            /\ input_points[i].y = MaxOf(BoxYs) => out[i].y = 100

\* C15: on a press of the shape button the resolver is called, once and with
\* the press-phase event, if and only if PointHistory holds fewer than ten
\* points after the seeding push; with ten points or more it is not called.
C15_ResolverCalledIffShort ==
    (Handled("ButtonPress") /\ ev.shape) =>
        /\ calls = (IF Len(point_history) < ShortThreshold THEN 1 ELSE 0)
        /\ calls = 1 => /\ passed.event_type = "Press"
                        /\ passed.button = FromRdevEvent(ev.btn)
                        /\ passed.shape_xy = <<>>

\* the shape button was pressed again with nine points recorded: the push
\* made them ten and the resolver was not called
C15_Witness ==
    /\ Handled("ButtonPress") /\ ev.shape
    /\ ~logFull
    /\ Len(point_history) = ShortThreshold
    /\ calls = 0

\* C16: every step of the handling of a pointer move keeps ButtonState and
\* calls no resolver, and the move is propagated; the handler goes on to the
\* configuration only if ButtonState is Pressed, on to the history only if
\* the pressed button is the shape button of the configuration it reads, and
\* there it appends one point, the last-known position, unless the history is
\* full.  No other step of the handling changes PointHistory.
C16_MoveRecordsUnderShapeButton ==
    [][ev'.type = "MouseMove" =>
        /\ button_state' = button_state
        /\ calls' = 0
        /\ pc' = "returned" => ret' = "Some"
        /\ pc = "idle" => (pc' = "L69" <=> button_state # None)
        /\ (pc = "L69" /\ pc' # pc) =>
              (pc' = "L70" <=> button_state = Pressed(ToRdevEvent(config.shape_button)))
        /\ point_history' =
              IF pc = "L70" /\ pc' # pc /\ ~IsFull(point_history, cap)
              THEN Append(point_history, last_point)
              ELSE point_history]_vars

\* a move made with the shape button pressed was appended after the point of
\* the press
C16_Witness ==
    /\ Handled("MouseMove") /\ ~logFull
    /\ gest.live /\ gest.stable /\ gest.extra = 0
    /\ Len(gest.trail) = 2
    /\ point_history = gest.trail
    /\ button_state = Pressed(ToRdevEvent(config.shape_button))

\* C17: no step the hook thread takes for a key press, a key release or a
\* wheel event changes ButtonState, PointHistory or the last-known position;
\* a key event is handled in one step, which calls no resolver and
\* propagates the event.
C17_KeysAndWheelKeepGesture ==
    [][(ev'.type \in {"KeyPress", "KeyRelease", "Wheel"} /\ pc' # pc) =>
        /\ UNCHANGED <<button_state, point_history, last_point>>
        /\ ev'.type \in {"KeyPress", "KeyRelease"} =>
              (calls' = 0 /\ pc' = "returned" /\ ret' = "Some")]_vars

\* a wheel event was classified in the middle of a gesture, away from the
\* start position
C17_Witness ==
    /\ Handled("Wheel") /\ calls = 1
    /\ button_state # None
    /\ point_history # <<>>
    /\ last_point # StartPoint

\* C19: whenever no event is being handled and ButtonState is None,
\* PointHistory is empty; and PointHistory grows only in the handling of a
\* press of the shape button or of a move made while ButtonState is Pressed.
C19_RestMeansEmptyHistory ==
    /\ []((pc \in {"idle", "returned"} /\ button_state = None)
            => point_history = <<>>)
    /\ [][Len(point_history') > Len(point_history) =>
            \/ ev'.type = "ButtonPress" /\ ev'.shape
            \/ ev'.type = "MouseMove" /\ button_state # None]_vars

\* a release handed a recorded trace to the resolver and left the classifier
\* at rest with an empty history
C19_Witness ==
    /\ Handled("ButtonRelease") /\ calls = 1
    /\ Len(passed.shape_xy) = cap
    /\ button_state = None
    /\ point_history = <<>>

\* the locks the statements the hook thread is about to execute take (the
\* resolver takes that of the configuration)
NextLocks ==
    CASE pc = "L69" -> {"config"}
      [] pc = "L70" -> {"point_history", "last_point"}
      [] pc = "L92" -> {"config", "point_history"}
      [] pc \in {"L99", "L104", "L130", "L146"} -> {"config"}
      [] OTHER -> {}

\* C20: no deadlock.  The hook thread never asks for a lock it holds; inside
\* a handler it can take its next step unless the watcher holds the lock of
\* the configuration, and the watcher, which holds nothing else, can then
\* store and release it; the hook thread never keeps that lock across a
\* step, so the watcher is never made to wait for a handler to return.
\* (The instant a handler returns is not one at which the watcher is
\* scheduled.)
C20_NoDeadlock ==
    /\ NextLocks \cap HookHeld = {}
    /\ pc = "idle" => HookHeld = {}
    /\ pc # "idle" => (ENABLED HookStep \/ locks["config"] = "watcher")
    /\ (locks["config"] = "watcher" /\ pc # "returned") => ENABLED WatchStore
    /\ locks["config"] # "hook"
    /\ (wpc = "lock" /\ pc # "returned") => ENABLED WatchLock

\* the hook thread, holding the lock of the history, waits for the lock of
\* the configuration, which the watcher holds and is about to release
C20_Witness ==
    /\ pc = "L99"
    /\ "point_history" \in HookHeld
    /\ locks["config"] = "watcher"
    /\ ~ENABLED HookStep
    /\ ENABLED WatchStore

====
